---- MODULE Spec2Model ----
(***************************************************************************)
(* ContractAI: clause segmentation (ContractParser), rule-based risk       *)
(* detection and scoring, optional LLM enrichment and report aggregation   *)
(* (WorkingContractAI), modelled from src/demo/WorkingContractAI.py, and   *)
(* the analysis history and report files of ContractAISystem, modelled     *)
(* from src/demo/ContractAISystem.py.                                      *)
(*                                                                         *)
(* Text is a sequence of characters.  Every character is written as a      *)
(* one-character ASCII string or, for a CJK character, as its pinyin with  *)
(* tone (a suffix letter separates homophones); the original text is in    *)
(* the comment beside each literal.                                        *)
(***************************************************************************)
EXTENDS Integers, Sequences, FiniteSets, TLC

VARIABLES
    file,                   \* the .docx given to analyze_contract
    use_llm,                \* WorkingContractAI.use_llm
    use_llm_for_high_risk,  \* analyze_contract's parameter
    pc,                     \* position inside analyze_contract; idle outside of it
    documents,              \* load_contract's result
    idx,                    \* paragraphs consumed by split_into_clauses' loop
    metadata,               \* split_into_clauses' loop variable metadata
    clauses,                \* split_into_clauses: clauses
    current_main_clause,    \* split_into_clauses: current_main_clause
    current_main_title,     \* split_into_clauses: current_main_title
    current_sub_clauses,    \* split_into_clauses: current_sub_clauses
    analyzed_clauses,       \* analyze_contract: analyzed_clauses
    basic_analysis,         \* analyze_contract: basic_analysis
    llm_calls,              \* log of the calls of chain.invoke: clause index and outcome
    result,                 \* what analyze_contract returned
    sc_risks,               \* a findings list handed to _calculate_risk_score
    sc_score,               \* the score _calculate_risk_score returned for sc_risks
    risk_rules,             \* WorkingContractAI.risk_rules
    an_analysis,            \* clause analyses made one by one by _basic_risk_analysis
    an_report,              \* what _generate_report made of an_analysis
    analysis_history,       \* ContractAISystem.analysis_history
    calls,                  \* log of the calls of analyze_contract_file: arguments, return
    report_files,           \* the files in the directory reports
    clock,                  \* datetime.now()
    file_paths,             \* generate_comparison_report's argument
    comparison_data,        \* generate_comparison_report: comparison_data
    cmp_idx,                \* files generate_comparison_report's loop is done with
    cmp_pc                  \* position inside generate_comparison_report

vars == << file, use_llm, use_llm_for_high_risk, pc, documents, idx, metadata,
           clauses, current_main_clause, current_main_title, current_sub_clauses,
           analyzed_clauses, basic_analysis, llm_calls, result, sc_risks, sc_score,
           risk_rules, an_analysis, an_report,
           analysis_history, calls, report_files, clock,
           file_paths, comparison_data, cmp_idx, cmp_pc >>

pipelineVars == << file, use_llm, use_llm_for_high_risk, pc, documents, idx, metadata,
                   clauses, current_main_clause, current_main_title,
                   current_sub_clauses, analyzed_clauses, basic_analysis, llm_calls,
                   result >>

scorerVars == << sc_risks, sc_score >>

analyzerVars == << an_analysis, an_report >>

systemVars == << analysis_history, calls, report_files, clock >>

comparisonVars == << file_paths, comparison_data, cmp_idx, cmp_pc >>

(***************************************************************************)
(* Bounds of the model.                                                    *)
(***************************************************************************)
\* longest file, in paragraphs, drawn from ParagraphPool
MaxParas == 3
\* longest findings list handed to the scorer on its own
MaxFindings == 6
\* longest list of clauses analysed one by one and handed to _generate_report
MaxClauses == 3
\* most calls of analyze_contract_file on one ContractAISystem
MaxCalls == 2
\* longest list of paths handed to generate_comparison_report
MaxPaths == 2

(***************************************************************************)
(* Strings.                                                                *)
(***************************************************************************)
Max(a, b) == IF a >= b THEN a ELSE b

NL == "\n"

Whitespace == {" ", NL, "\t", "\r"}

\* str.strip()
RECURSIVE LStrip(_)
LStrip(s) == IF s # <<>> /\ Head(s) \in Whitespace THEN LStrip(Tail(s)) ELSE s

RECURSIVE RStrip(_)
RStrip(s) ==
    IF s # <<>> /\ s[Len(s)] \in Whitespace THEN RStrip(SubSeq(s, 1, Len(s) - 1)) ELSE s

Strip(s) == RStrip(LStrip(s))

\* '\n'.join(parts)
RECURSIVE Join(_)
Join(parts) ==
    IF parts = <<>> THEN <<>>
    ELSE IF Len(parts) = 1 THEN parts[1]
    ELSE parts[1] \o <<NL>> \o Join(Tail(parts))

\* s.split('\n')
RECURSIVE Split(_)
Split(s) ==
    IF \A j \in 1..Len(s) : s[j] # NL THEN <<s>>
    ELSE LET k == CHOOSE j \in 1..Len(s) : s[j] = NL /\ \A h \in 1..(j - 1) : s[h] # NL
         IN  <<SubSeq(s, 1, k - 1)>> \o Split(SubSeq(s, k + 1, Len(s)))

\* keyword in content
Contains(content, keyword) ==
    \E j \in 1..(Len(content) - Len(keyword) + 1) :
        \A h \in 1..Len(keyword) : content[j + h - 1] = keyword[h]

DigitChars == <<"0", "1", "2", "3", "4", "5", "6", "7", "8", "9">>

\* str(n) of a natural number
RECURSIVE DecStr(_)
DecStr(n) ==
    IF n < 10 THEN <<DigitChars[n + 1]>>
    ELSE DecStr(n \div 10) \o <<DigitChars[(n % 10) + 1]>>

(***************************************************************************)
(* Regular expressions (module re): a pattern is a sequence of elements,   *)
(* each a character class with a quantifier.  A leading ^ is dropped from  *)
(* the patterns handed to re.match, which anchors at the start anyway.     *)
(***************************************************************************)
Chr(c) == [neg |-> FALSE, chars |-> {c}]
Class(S) == [neg |-> FALSE, chars |-> S]
\* . matches every character but the newline (no re.DOTALL)
Dot == [neg |-> TRUE, chars |-> {NL}]
\* \d
Digit == Class({"0", "1", "2", "3", "4", "5", "6", "7", "8", "9"})

InClass(c, cls) == IF cls.neg THEN c \notin cls.chars ELSE c \in cls.chars

One(cls) == [q |-> "one", cls |-> cls]
Opt(cls) == [q |-> "opt", cls |-> cls]
Star(cls) == [q |-> "star", cls |-> cls]
Plus(cls) == [q |-> "plus", cls |-> cls]
Lit(s) == [j \in 1..Len(s) |-> One(Chr(s[j]))]

\* the pattern from its element k on matches text t from position j on
RECURSIVE MatchHere(_, _, _, _)
MatchHere(re, k, t, j) ==
    IF k > Len(re) THEN TRUE
    ELSE LET e == re[k]
             here == j <= Len(t) /\ InClass(t[j], e.cls)
         IN  CASE e.q = "one"  -> here /\ MatchHere(re, k + 1, t, j + 1)
               [] e.q = "opt"  -> \/ here /\ MatchHere(re, k + 1, t, j + 1)
                                  \/ MatchHere(re, k + 1, t, j)
               [] e.q = "star" -> \/ MatchHere(re, k + 1, t, j)
                                  \/ here /\ MatchHere(re, k, t, j + 1)
               [] e.q = "plus" -> here /\ \/ MatchHere(re, k, t, j + 1)
                                          \/ MatchHere(re, k + 1, t, j + 1)

re_match(re, t) == MatchHere(re, 1, t, 1)

re_search(re, t) == \E j \in 1..(Len(t) + 1) : MatchHere(re, 1, t, j)

(***************************************************************************)
(* ContractParser                                                          *)
(***************************************************************************)
\* [一二三四五六七八九十零]
CnNumeralsZero ==
    Class({"yi1", "er4", "san1", "si4", "wu3", "liu4", "qi1", "ba1", "jiu3", "shi2", "ling2"})

\* [一二三四五六七八九十]
CnNumerals ==
    Class({"yi1", "er4", "san1", "si4", "wu3", "liu4", "qi1", "ba1", "jiu3", "shi2"})

main_clause_patterns ==
    << Lit(<<"di4">>) \o <<Plus(CnNumeralsZero)>> \o Lit(<<"tiao2">>),  \* ^第[一二三四五六七八九十零]+条
       Lit(<<"di4">>) \o <<Plus(Digit)>> \o Lit(<<"tiao2">>),           \* ^第\d+条
       Lit(<<"A", "R", "T", "I", "C", "L", "E">>),                      \* ^ARTICLE
       Lit(<<"S", "E", "C", "T", "I", "O", "N">>) >>                    \* ^SECTION

sub_clause_patterns ==
    << <<Plus(Digit)>> \o Lit(<<".">>) \o <<Plus(Digit)>>,  \* ^\d+\.\d+
       <<One(CnNumerals)>> \o Lit(<<"dun">>),               \* ^[一二三四五六七八九十]、
       <<Plus(Digit)>> \o Lit(<<"dun">>) >>                 \* ^\d+、

\* _is_main_clause without its first pattern: only 第\d+条, ARTICLE and SECTION
_is_main_clause_DigitsOnly(text) ==
    \E p \in 2..Len(main_clause_patterns) : re_match(main_clause_patterns[p], Strip(text))

_is_main_clause(text) ==
    \E p \in 1..Len(main_clause_patterns) : re_match(main_clause_patterns[p], Strip(text))

_is_sub_clause(text) ==
    \E p \in 1..Len(sub_clause_patterns) : re_match(sub_clause_patterns[p], Strip(text))

\* _combine_clause_content with the sub-clauses put before the main lines
_combine_clause_content_SubFirst(main_clause, sub_clauses) ==
    Join(sub_clauses \o main_clause)

_combine_clause_content(main_clause, sub_clauses) ==
    LET parts1 == IF main_clause # <<>> THEN main_clause ELSE <<>>
        parts2 == IF sub_clauses # <<>> THEN parts1 \o sub_clauses ELSE parts1
    IN  Join(parts2)

\* 合同前言
PreambleTitle == <<"he2", "tong2", "qian2", "yan2w">>

\* the clause dictionary appended by split_into_clauses; **metadata carries the
\* paragraph_id of the paragraph the loop variable holds at the flush
NewClause(md, main_clause, title, sub_clauses) ==
    [ page_content |-> _combine_clause_content(main_clause, sub_clauses),
      metadata |-> [ paragraph_id     |-> md.paragraph_id,
                     clause_title     |-> title,
                     type             |-> "main_clause",
                     sub_clause_count |-> Len(sub_clauses) ] ]

(***************************************************************************)
(* The files analysed: paragraphs as python-docx yields them (paragraph    *)
(* text before strip()), or a file Document() cannot open.                 *)
(***************************************************************************)
P_H1 == <<"di4", "yi1", "tiao2", " ", "fu4", "kuan3">>  \* 第一条 付款
P_B1 == <<"jia3", "fang1", "ying1", "zhi1", "fu4", "wei2", "yue1", "jin1", "1", "0", "%">>  \* 甲方应支付违约金10%
P_H2 == <<"di4", "er4", "tiao2", " ", "yan4", "shou1">>  \* 第二条 验收
P_B2 == <<"an4", "zhao4", "hang2", "ye4", "tong1", "yong4", "biao1", "zhun3", "yan4", "shou1">>  \* 按照行业通用标准验收
P_S1 == <<"1", ".", "1", " ", "jiao1", "fu4">>  \* 1.1 交付
P_N  == <<" ", "jia3", "fang1">>  \* " 甲方", indented
P_E  == << >>  \* an empty paragraph

ParagraphPool == {P_H1, P_B1, P_H2, P_B2, P_S1, P_N, P_E}

\* the paragraphs of section 8's end-to-end example
ExampleParagraphs == <<P_H1, P_B1, P_H2, P_B2>>

RECURSIVE SeqsUpTo(_, _)
SeqsUpTo(S, n) ==
    IF n = 0 THEN {<<>>}
    ELSE LET shorter == SeqsUpTo(S, n - 1)
         IN  shorter \cup {Append(s, x) : s \in {t \in shorter : Len(t) = n - 1}, x \in S}

Files ==
    {[readable |-> TRUE, paragraphs |-> ps] :
        ps \in SeqsUpTo(ParagraphPool, MaxParas) \cup {ExampleParagraphs}}
    \cup {[readable |-> FALSE, paragraphs |-> <<>>]}

\* load_contract's loop: the non-empty stripped paragraphs, each with its index
\* among all paragraphs of the file
RECURSIVE LoadFrom(_, _)
LoadFrom(paragraphs, i) ==
    IF i > Len(paragraphs) THEN <<>>
    ELSE LET text == Strip(paragraphs[i])
         IN  (IF text # <<>>
              THEN << [ page_content |-> text,
                        metadata |-> [paragraph_id |-> i - 1, type |-> "paragraph"] ] >>
              ELSE <<>>)
             \o LoadFrom(paragraphs, i + 1)

load_contract(f) == LoadFrom(f.paragraphs, 1)

(***************************************************************************)
(* WorkingContractAI: the risk rules, in the dictionary's insertion order. *)
(***************************************************************************)
_load_risk_rules ==
  <<
    [ risk_id  |-> "financial_risk",
      name     |-> <<"cai2", "wu4", "feng1", "xian3">>,  \* 财务风险
      keywords |-> <<
        <<"zhi1", "fu4">>,  \* 支付
        <<"fu4", "kuan3">>,  \* 付款
        <<"wei2", "yue1", "jin1">>,  \* 违约金
        <<"jia4", "ge2">>,  \* 价格
        <<"jin1", "e2">>,  \* 金额
        <<"pei2", "chang2">>,  \* 赔偿
        <<"li4", "xi1">>,  \* 利息
        <<"yu4", "fu4", "kuan3">>,  \* 预付款
        <<"wei3", "kuan3">>  \* 尾款
      >>,
      patterns |-> <<
        \* 剩余款项.*验收合格后支付 : 付款条件模糊
        [ pattern     |-> Lit(<<"sheng4", "yu2", "kuan3", "xiang4">>) \o <<Star(Dot)>> \o Lit(<<"yan4", "shou1", "he2", "ge2", "hou4", "zhi1", "fu4">>),
          description |-> <<"fu4", "kuan3", "tiao2", "jian4", "mo2", "hu2">> ],
        \* 支付.*总价.*50% : 预付款比例较高
        [ pattern     |-> Lit(<<"zhi1", "fu4">>) \o <<Star(Dot)>> \o Lit(<<"zong3", "jia4">>) \o <<Star(Dot)>> \o Lit(<<"5", "0", "%">>),
          description |-> <<"yu4", "fu4", "kuan3", "bi3", "li4e", "jiao4", "gao1">> ],
        \* 违约金.*\d+\.?\d*% : 违约金比例需确认
        [ pattern     |-> Lit(<<"wei2", "yue1", "jin1">>) \o <<Star(Dot)>> \o <<Plus(Digit)>> \o <<Opt(Chr("."))>> \o <<Star(Digit)>> \o Lit(<<"%">>),
          description |-> <<"wei2", "yue1", "jin1", "bi3", "li4e", "xu1", "que4", "ren4r">> ]
      >> ],
    [ risk_id  |-> "delivery_risk",
      name     |-> <<"jiao1", "fu4", "feng1", "xian3">>,  \* 交付风险
      keywords |-> <<
        <<"jiao1", "fu4">>,  \* 交付
        <<"yan4", "shou1">>,  \* 验收
        <<"biao1", "zhun3">>,  \* 标准
        <<"shi2t", "jian1">>,  \* 时间
        <<"qi1p", "xian4">>,  \* 期限
        <<"yan2", "chi2">>,  \* 延迟
        <<"jin3", "kuai4">>,  \* 尽快
        <<"yan4", "shou1", "biao1", "zhun3">>  \* 验收标准
      >>,
      patterns |-> <<
        \* 按照.*标准验收 : 验收标准模糊
        [ pattern     |-> Lit(<<"an4", "zhao4">>) \o <<Star(Dot)>> \o Lit(<<"biao1", "zhun3", "yan4", "shou1">>),
          description |-> <<"yan4", "shou1", "biao1", "zhun3", "mo2", "hu2">> ],
        \* 尽快处理 : 响应时间不明确
        [ pattern     |-> Lit(<<"jin3", "kuai4", "chu3", "li3">>),
          description |-> <<"xiang3", "ying1", "shi2t", "jian1", "bu4n", "ming2", "que4">> ],
        \* 行业通用标准 : 标准定义不清
        [ pattern     |-> Lit(<<"hang2", "ye4", "tong1", "yong4", "biao1", "zhun3">>),
          description |-> <<"biao1", "zhun3", "ding4", "yi4m", "bu4n", "qing1">> ]
      >> ],
    [ risk_id  |-> "legal_risk",
      name     |-> <<"fa3", "lv4", "feng1", "xian3">>,  \* 法律风险
      keywords |-> <<
        <<"zheng1", "yi4">>,  \* 争议
        <<"su4", "song4">>,  \* 诉讼
        <<"guan3", "xia2">>,  \* 管辖
        <<"zhi1k", "shi2k", "chan3", "quan2">>,  \* 知识产权
        <<"bao3", "mi4">>,  \* 保密
        <<"ze2", "ren4">>,  \* 责任
        <<"jiu1", "fen1">>  \* 纠纷
      >>,
      patterns |-> <<
        \* 乙方承担全部责任 : 责任分配不均
        [ pattern     |-> Lit(<<"yi3", "fang1", "cheng2", "dan1", "quan2a", "bu4", "ze2", "ren4">>),
          description |-> <<"ze2", "ren4", "fen1d", "pei4", "bu4n", "jun1">> ],
        \* 甲方所在地.*诉讼 : 管辖地单方有利
        [ pattern     |-> Lit(<<"jia3", "fang1", "suo3", "zai4", "di4p">>) \o <<Star(Dot)>> \o Lit(<<"su4", "song4">>),
          description |-> <<"guan3", "xia2", "di4p", "dan1s", "fang1", "you3h", "li4">> ],
        \* 友好协商解决 : 解决方式模糊
        [ pattern     |-> Lit(<<"you3", "hao3", "xie2", "shang1", "jie3", "jue2">>),
          description |-> <<"jie3", "jue2", "fang1", "shi4", "mo2", "hu2">> ]
      >> ]
  >>


\* 条款内容
PositionClauseBody == <<"tiao2", "kuan3", "nei4", "rong2">>

\* f"第{i+1}行" for the first line that holds the keyword
_find_keyword_position(content, keyword) ==
    LET lines == Split(content)
        hits == {i \in 1..Len(lines) : Contains(lines[i], keyword)}
    IN  IF hits # {}
        THEN LET first == CHOOSE i \in hits : \A h \in hits : i <= h
             IN  <<"di4">> \o DecStr(first) \o <<"hang2">>
        ELSE PositionClauseBody

\* f'发现关键词: {keyword}'
KeywordDescription(keyword) ==
    <<"fa1", "xian4n", "guan1", "jian4k", "ci2", ":", " ">> \o keyword

KeywordRisk(rule, keyword, content) ==
    [ type        |-> rule.name,
      level       |-> "medium",
      description |-> KeywordDescription(keyword),
      position    |-> _find_keyword_position(content, keyword),
      category    |-> rule.risk_id ]

PatternRisk(rule, pat) ==
    [ type        |-> rule.name,
      level       |-> "high",
      description |-> pat.description,
      position    |-> PositionClauseBody,
      category    |-> rule.risk_id ]

\* is this keyword of the rule table a hit in content
KeywordHit(keyword, content) == Contains(content, keyword)

\* PatternHit with re.match in place of re.search
PatternHit_MatchAtStart(pat, content) == re_match(pat.pattern, content)

\* is this pattern of the rule table a hit in content
PatternHit(pat, content) == re_search(pat.pattern, content)

\* KeywordRisks stopping at the first keyword of the category found
RECURSIVE KeywordRisks_FirstHitOnly(_, _, _)
KeywordRisks_FirstHitOnly(rule, content, k) ==
    IF k > Len(rule.keywords) THEN <<>>
    ELSE IF KeywordHit(rule.keywords[k], content)
         THEN <<KeywordRisk(rule, rule.keywords[k], content)>>
         ELSE KeywordRisks_FirstHitOnly(rule, content, k + 1)

RECURSIVE KeywordRisks(_, _, _)
KeywordRisks(rule, content, k) ==
    IF k > Len(rule.keywords) THEN <<>>
    ELSE (IF KeywordHit(rule.keywords[k], content)
          THEN <<KeywordRisk(rule, rule.keywords[k], content)>>
          ELSE <<>>)
         \o KeywordRisks(rule, content, k + 1)

RECURSIVE PatternRisks(_, _, _)
PatternRisks(rule, content, k) ==
    IF k > Len(rule.patterns) THEN <<>>
    ELSE (IF PatternHit(rule.patterns[k], content)
          THEN <<PatternRisk(rule, rule.patterns[k])>>
          ELSE <<>>)
         \o PatternRisks(rule, content, k + 1)

RECURSIVE RulesRisks(_, _, _)
RulesRisks(rules, content, r) ==
    IF r > Len(rules) THEN <<>>
    ELSE KeywordRisks(rules[r], content, 1) \o PatternRisks(rules[r], content, 1)
         \o RulesRisks(rules, content, r + 1)

\* _detect_detailed_risks keeping its findings list from one call to the next
_detect_detailed_risks_Accumulating(content) ==
    (IF an_analysis = <<>> THEN <<>> ELSE an_analysis[Len(an_analysis)].risks)
        \o RulesRisks(risk_rules, content, 1)

\* the loops over self.risk_rules.items()
_detect_detailed_risks(content) == RulesRisks(risk_rules, content, 1)

CountLevel(risks, level) == Cardinality({k \in 1..Len(risks) : risks[k].level = level})

\* _calculate_risk_score without the floor of 30
_calculate_risk_score_NoFloor(risks) ==
    IF risks = <<>> THEN 85
    ELSE 85 - (CountLevel(risks, "high") * 20 + CountLevel(risks, "medium") * 10)

\* _calculate_risk_score with the medium penalty added to the high penalty's
\* remainder instead of taken off
_calculate_risk_score_MediumAdds(risks) ==
    IF risks = <<>> THEN 85
    ELSE Max(30, 85 - CountLevel(risks, "high") * 20 + CountLevel(risks, "medium") * 10)

_calculate_risk_score(risks) ==
    IF risks = <<>> THEN 85
    ELSE LET high_risks == CountLevel(risks, "high")
             medium_risks == CountLevel(risks, "medium")
             base_score == 85
             score_reduction == high_risks * 20 + medium_risks * 10
         IN  Max(30, base_score - score_reduction)

\* review_status: 待审核 "pending_review", 低风险 "low_risk"
_basic_risk_analysis(clause) ==
    LET risks == _detect_detailed_risks(clause.page_content)
    IN  [ risks         |-> risks,
          risk_score    |-> _calculate_risk_score(risks),
          review_status |-> IF risks # <<>> THEN "pending_review" ELSE "low_risk" ]

\* {**a, **b}
Merge(a, b) ==
    [k \in (DOMAIN a) \cup (DOMAIN b) |-> IF k \in DOMAIN b THEN b[k] ELSE a[k]]

(***************************************************************************)
(* FixedLangChainContractAdvisor.  A reply of the model is what            *)
(* json.loads makes of it: json says whether a JSON object was found and   *)
(* parsed, obj is the parsed dictionary, text the reply as a whole.        *)
(* Risk levels: 低风险 "low", 中风险 "medium", 高风险 "high".              *)
(***************************************************************************)
required_fields ==
    {"risk_analysis", "specific_risks", "modification_suggestions",
     "legal_basis", "negotiation_tips", "risk_level"}

\* a reply with exactly the six fields asked for
SixFields ==
    [ risk_analysis            |-> "llm_risk_analysis",
      specific_risks           |-> <<"llm_risk_1">>,
      modification_suggestions |-> <<"llm_suggestion_1">>,
      legal_basis              |-> "llm_legal_basis",
      negotiation_tips         |-> "llm_negotiation_tips",
      risk_level               |-> "low" ]

Responses ==
    { [json |-> TRUE, obj |-> SixFields, text |-> "reply_json"],
      \* the six fields and two keys nobody asked for
      [json |-> TRUE,
       obj |-> Merge(SixFields, [risk_score |-> 100, risks |-> <<>>]),
       text |-> "reply_json_extra"],
      \* a JSON object that lacks required fields
      [json |-> TRUE, obj |-> [risk_analysis |-> "llm_risk_analysis"],
       text |-> "reply_json_partial"],
      \* prose, no JSON object in it
      [json |-> FALSE, obj |-> [x \in {} |-> 0], text |-> "reply_prose"] }

\* chain.invoke either raises or returns a reply
LLMOutcomes ==
    {[kind |-> "raise"]} \cup {[kind |-> "reply", response |-> r] : r \in Responses}

\* the replies of the model hold no line with one of the marker words, so every
\* field keeps its default and risk_analysis is the reply's text
_extract_from_text(text) ==
    [ risk_analysis            |-> text,
      specific_risks           |-> <<>>,
      modification_suggestions |-> <<"suggest_legal_review_in_detail">>,
      legal_basis              |-> "standard_review_rules",
      negotiation_tips         |-> "clarify_key_commercial_terms",
      risk_level               |-> "medium" ]

_parse_llm_response(response) ==
    IF response.json /\ required_fields \subseteq DOMAIN response.obj
    THEN response.obj
    ELSE _extract_from_text(response.text)

ContainsAny(description, words) == \E w \in words : Contains(description, w)

\* which suggestion a risk's description selects, "" when none
SuggestionFor(description) ==
    IF ContainsAny(description, {<<"fu4", "kuan3">>, <<"zhi1", "fu4">>, <<"jin1", "e2">>})
    THEN "suggest_payment_terms"        \* 付款, 支付, 金额
    ELSE IF ContainsAny(description,
                        {<<"yan4", "shou1">>, <<"biao1", "zhun3">>, <<"jiao1", "fu4">>})
    THEN "suggest_acceptance_criteria"  \* 验收, 标准, 交付
    ELSE IF Contains(description, <<"wei2", "yue1">>)
    THEN "suggest_penalty_cap"          \* 违约
    ELSE IF Contains(description, <<"guan3", "xia2">>)
    THEN "suggest_neutral_court"        \* 管辖
    ELSE ""

_generate_fallback_suggestions(risks) ==
    LET hits == {k \in 1..Len(risks) : SuggestionFor(risks[k].description) # ""}
    IN  IF hits # {}
        THEN LET first == CHOOSE k \in hits : \A h \in hits : k <= h
             IN  <<SuggestionFor(risks[first].description)>>
        ELSE <<"suggest_legal_review">>

\* risk_analysis is the number of risks and the set of their types
_fallback_analysis(clause_content, risks) ==
    [ risk_analysis            |-> [ count |-> Len(risks),
                                     types |-> {risks[k].type : k \in 1..Len(risks)} ],
      specific_risks           |-> [k \in 1..(IF Len(risks) < 3 THEN Len(risks) ELSE 3)
                                       |-> risks[k].description],
      modification_suggestions |-> _generate_fallback_suggestions(risks),
      legal_basis              |-> "standard_review_rules",
      negotiation_tips         |-> "clarify_key_commercial_terms",
      risk_level               |-> IF Len(risks) > 3 THEN "high"
                                   ELSE IF risks # <<>> THEN "medium" ELSE "low" ]

\* analyze_clause_with_llm returning an empty dictionary when chain.invoke raises
analyze_clause_with_llm_NoFallback(outcome, clause_content, clause_title, risks) ==
    IF outcome.kind = "raise"
    THEN [x \in {} |-> 0]
    ELSE _parse_llm_response(outcome.response)

\* outcome is what chain.invoke does in this call
analyze_clause_with_llm(outcome, clause_content, clause_title, risks) ==
    IF outcome.kind = "raise"
    THEN _fallback_analysis(clause_content, risks)
    ELSE _parse_llm_response(outcome.response)

(***************************************************************************)
(* WorkingContractAI: the report.                                          *)
(***************************************************************************)
RECURSIVE SumScores(_)
SumScores(analysis) ==
    IF analysis = <<>> THEN 0 ELSE Head(analysis).risk_score + SumScores(Tail(analysis))

RECURSIVE SumRisks(_)
SumRisks(analysis) ==
    IF analysis = <<>> THEN 0 ELSE Len(Head(analysis).risks) + SumRisks(Tail(analysis))

\* len([c for c in analysis if c['risk_score'] < hi])
CountBelow(analysis, hi) ==
    Cardinality({k \in 1..Len(analysis) : analysis[k].risk_score < hi})

\* len([c for c in analysis if lo <= c['risk_score'] < hi])
CountBetween(analysis, lo, hi) ==
    Cardinality({k \in 1..Len(analysis) :
                    lo <= analysis[k].risk_score /\ analysis[k].risk_score < hi})

\* _get_risk_level with the low tier starting at 75
_get_risk_level_Low75(score) ==
    IF score >= 75 THEN "low" ELSE IF score >= 60 THEN "medium" ELSE "high"

_get_risk_level(score) ==
    IF score >= 80 THEN "low" ELSE IF score >= 60 THEN "medium" ELSE "high"

\* _generate_summary sending three high-risk clauses to the second message
_generate_summary_FewUpTo3(analysis) ==
    LET high_risk_count == CountBelow(analysis, 60)
    IN  IF high_risk_count = 0 THEN "summary_risk_under_control"
        ELSE IF high_risk_count <= 3 THEN "summary_few_high_risk_clauses"
        ELSE "summary_legal_department_review"

_generate_summary(analysis) ==
    LET high_risk_count == CountBelow(analysis, 60)
    IN  IF high_risk_count = 0 THEN "summary_risk_under_control"
        ELSE IF high_risk_count <= 2 THEN "summary_few_high_risk_clauses"
        ELSE "summary_legal_department_review"

\* defined for a non-empty analysis; on an empty one the division raises
_generate_report(analysis, llm_enhanced) ==
    LET overall_score == SumScores(analysis) \div Len(analysis)
    IN  [ overall_risk_score   |-> overall_score,
          risk_level           |-> _get_risk_level(overall_score),
          total_clauses        |-> Len(analysis),
          total_risks_found    |-> SumRisks(analysis),
          high_risk_clauses    |-> CountBelow(analysis, 60),
          medium_risk_clauses  |-> CountBetween(analysis, 60, 75),
          clauses_analysis     |-> analysis,
          summary              |-> _generate_summary(analysis),
          llm_enhanced         |-> llm_enhanced,
          timestamp            |-> "2024-01-01 10:00:00" ]

(***************************************************************************)
(* analyze_contract, step by step.                                         *)
(***************************************************************************)
NoResult == [pending |-> TRUE]

\* ErrorResult handing out the clauses analysed so far with the error
ErrorResult_WithPartial(e) == [error |-> e, clauses_analysis |-> analyzed_clauses]

\* {'error': f'合同分析失败: {str(e)}'}
ErrorResult(e) == [error |-> e]

NoMetadata == [paragraph_id |-> -1, type |-> "unbound"]

NoAnalysis == [risks |-> <<>>, risk_score |-> -1, review_status |-> "unbound"]

\* the findings of the clause P_B1 makes on its own, for the scorer taken alone
FindingPool ==
    LET risks == _detect_detailed_risks(Strip(P_B1))
    IN  {risks[k] : k \in 1..Len(risks)}

\* self.analysis_history = []; no call made, no report file written
SystemStart ==
    /\ analysis_history = <<>>
    /\ calls = <<>>
    /\ report_files = {}
    /\ clock = 0

\* generate_comparison_report has not been called
ComparisonStart ==
    /\ file_paths = <<>>
    /\ comparison_data = <<>>
    /\ cmp_idx = 0
    /\ cmp_pc = "idle"

PipelineStart ==
    /\ pc = "load"
    /\ documents = <<>>
    /\ idx = 0
    /\ metadata = NoMetadata
    /\ clauses = <<>>
    /\ current_main_clause = <<>>
    /\ current_main_title = PreambleTitle
    /\ current_sub_clauses = <<>>
    /\ analyzed_clauses = <<>>
    /\ basic_analysis = NoAnalysis
    /\ llm_calls = <<>>
    /\ result = NoResult

Init ==
    /\ file \in Files
    /\ use_llm \in BOOLEAN
    /\ use_llm_for_high_risk \in BOOLEAN
    /\ PipelineStart
    /\ risk_rules = _load_risk_rules
    /\ sc_risks = <<>>
    /\ sc_score = _calculate_risk_score(<<>>)
    /\ an_analysis = <<>>
    /\ an_report = NoResult
    /\ SystemStart
    /\ ComparisonStart

\* documents = self.parser.load_contract(file_path); Document() raising ends
\* analyze_contract in its except branch
LoadContract ==
    /\ pc = "load"
    /\ \/ /\ file.readable
          /\ documents' = load_contract(file)
          /\ pc' = "split"
          /\ UNCHANGED result
       \/ /\ ~file.readable
          /\ result' = ErrorResult("load_contract_failed")
          /\ pc' = "done"
          /\ UNCHANGED documents
    /\ UNCHANGED << file, use_llm, use_llm_for_high_risk, idx, metadata, clauses,
                    current_main_clause, current_main_title, current_sub_clauses,
                    analyzed_clauses, basic_analysis, llm_calls >>
    /\ UNCHANGED << risk_rules, scorerVars, analyzerVars, systemVars, comparisonVars >>

\* ShouldFlush looking at the main lines only
ShouldFlush_MainOnly(main_clause, sub_clauses) == main_clause # <<>>

\* if current_main_clause or current_sub_clauses
ShouldFlush(main_clause, sub_clauses) == main_clause # <<>> \/ sub_clauses # <<>>

\* AppendToLast opening a new sub-clause entry for the paragraph
AppendToLast_NewEntry(sub_clauses, text) == Append(sub_clauses, text)

\* current_sub_clauses[-1] += "\n" + text
AppendToLast(sub_clauses, text) ==
    [sub_clauses EXCEPT ![Len(sub_clauses)] = @ \o <<NL>> \o text]

\* one iteration of split_into_clauses' loop
SplitStep ==
    /\ pc = "split"
    /\ idx < Len(documents)
    /\ LET doc == documents[idx + 1]
           text == doc.page_content
       IN  /\ metadata' = doc.metadata
           /\ \/ /\ _is_main_clause(text)
                 /\ clauses' =
                        IF ShouldFlush(current_main_clause, current_sub_clauses)
                        THEN Append(clauses,
                                    NewClause(doc.metadata, current_main_clause,
                                              current_main_title, current_sub_clauses))
                        ELSE clauses
                 /\ current_main_clause' = <<text>>
                 /\ current_main_title' = text
                 /\ current_sub_clauses' = <<>>
              \/ /\ ~_is_main_clause(text)
                 /\ _is_sub_clause(text)
                 /\ current_sub_clauses' = Append(current_sub_clauses, text)
                 /\ UNCHANGED << clauses, current_main_clause, current_main_title >>
              \/ /\ ~_is_main_clause(text)
                 /\ ~_is_sub_clause(text)
                 /\ IF current_sub_clauses # <<>>
                    THEN /\ current_sub_clauses' = AppendToLast(current_sub_clauses, text)
                         /\ UNCHANGED current_main_clause
                    ELSE /\ current_main_clause' = Append(current_main_clause, text)
                         /\ UNCHANGED current_sub_clauses
                 /\ UNCHANGED << clauses, current_main_title >>
    /\ idx' = idx + 1
    /\ UNCHANGED << file, use_llm, use_llm_for_high_risk, pc, documents,
                    analyzed_clauses, basic_analysis, llm_calls, result >>
    /\ UNCHANGED << risk_rules, scorerVars, analyzerVars, systemVars, comparisonVars >>

\* the flush after the loop, and the return
SplitFinish ==
    /\ pc = "split"
    /\ idx = Len(documents)
    /\ clauses' =
           IF ShouldFlush(current_main_clause, current_sub_clauses)
           THEN Append(clauses,
                       NewClause(metadata, current_main_clause,
                                 current_main_title, current_sub_clauses))
           ELSE clauses
    /\ pc' = "analyze"
    /\ UNCHANGED << file, use_llm, use_llm_for_high_risk, documents, idx, metadata,
                    current_main_clause, current_main_title, current_sub_clauses,
                    analyzed_clauses, basic_analysis, llm_calls, result >>
    /\ UNCHANGED << risk_rules, scorerVars, analyzerVars, systemVars, comparisonVars >>

\* InvokesLLM with the threshold of the high-risk bucket, 60
InvokesLLM_Below60(basic) ==
    use_llm /\ (~use_llm_for_high_risk \/ basic.risk_score < 60)

\* if self.use_llm and (not use_llm_for_high_risk or basic_analysis['risk_score'] < 70)
InvokesLLM(basic) ==
    use_llm /\ (~use_llm_for_high_risk \/ basic.risk_score < 70)

\* clause_analysis = {**basic_analysis, **llm_analysis}
MergeAnalysis(basic, llm_analysis) == Merge(basic, llm_analysis)

\* the head of an iteration of analyze_contract's loop:
\* basic_analysis = self._basic_risk_analysis(clause)
AnalyzeClause ==
    /\ pc = "analyze"
    /\ Len(analyzed_clauses) < Len(clauses)
    /\ basic_analysis' = _basic_risk_analysis(clauses[Len(analyzed_clauses) + 1])
    /\ pc' = "enrich"
    /\ UNCHANGED << file, use_llm, use_llm_for_high_risk, documents, idx, metadata,
                    clauses, current_main_clause, current_main_title,
                    current_sub_clauses, analyzed_clauses, llm_calls, result >>
    /\ UNCHANGED << risk_rules, scorerVars, analyzerVars, systemVars, comparisonVars >>

\* the rest of an iteration that does not call the advisor
AnalyzeBasic ==
    /\ pc = "enrich"
    /\ ~InvokesLLM(basic_analysis)
    /\ LET clause == clauses[Len(analyzed_clauses) + 1]
       IN  analyzed_clauses' = Append(analyzed_clauses, Merge(clause, basic_analysis))
    /\ pc' = "analyze"
    /\ UNCHANGED << file, use_llm, use_llm_for_high_risk, documents, idx, metadata,
                    clauses, current_main_clause, current_main_title,
                    current_sub_clauses, basic_analysis, llm_calls, result >>
    /\ UNCHANGED << risk_rules, scorerVars, analyzerVars, systemVars, comparisonVars >>

\* the rest of an iteration that calls the advisor
AnalyzeWithLLM ==
    /\ pc = "enrich"
    /\ InvokesLLM(basic_analysis)
    /\ LET clause == clauses[Len(analyzed_clauses) + 1]
       IN  \E outcome \in LLMOutcomes :
              LET llm_analysis ==
                      analyze_clause_with_llm(outcome, clause.page_content,
                                              clause.metadata.clause_title,
                                              basic_analysis.risks)
                  clause_analysis == MergeAnalysis(basic_analysis, llm_analysis)
              IN  /\ analyzed_clauses' =
                         Append(analyzed_clauses, Merge(clause, clause_analysis))
                  /\ llm_calls' =
                         Append(llm_calls,
                                [ clause |-> Len(analyzed_clauses) + 1,
                                  outcome |-> IF outcome.kind = "raise" THEN "raise"
                                              ELSE outcome.response.text ])
    /\ pc' = "analyze"
    /\ UNCHANGED << file, use_llm, use_llm_for_high_risk, documents, idx, metadata,
                    clauses, current_main_clause, current_main_title,
                    current_sub_clauses, basic_analysis, result >>
    /\ UNCHANGED << risk_rules, scorerVars, analyzerVars, systemVars, comparisonVars >>

\* TryGenerateReport reporting on an empty list as on any other, its overall
\* score taken as 0
TryGenerateReport_EmptyReport(analysis, llm_enhanced) ==
    IF analysis = <<>>
    THEN [_generate_report(<<[risk_score |-> 0, risks |-> <<>>]>>, llm_enhanced)
             EXCEPT !.total_clauses = 0, !.clauses_analysis = <<>>,
                    !.high_risk_clauses = 0, !.summary = _generate_summary(<<>>)]
    ELSE _generate_report(analysis, llm_enhanced)

\* report = self._generate_report(analyzed_clauses) inside analyze_contract's
\* try: an empty list makes the division raise ZeroDivisionError, which the
\* except branch turns into the error result
TryGenerateReport(analysis, llm_enhanced) ==
    IF Len(analysis) = 0
    THEN ErrorResult("integer division or modulo by zero")
    ELSE _generate_report(analysis, llm_enhanced)

\* the return of analyze_contract after the loop
GenerateReport ==
    /\ pc = "analyze"
    /\ Len(analyzed_clauses) = Len(clauses)
    /\ result' = TryGenerateReport(analyzed_clauses, use_llm)
    /\ pc' = "done"
    /\ UNCHANGED << file, use_llm, use_llm_for_high_risk, documents, idx, metadata,
                    clauses, current_main_clause, current_main_title,
                    current_sub_clauses, analyzed_clauses, basic_analysis, llm_calls >>
    /\ UNCHANGED << risk_rules, scorerVars, analyzerVars, systemVars, comparisonVars >>

Next ==
    \/ LoadContract
    \/ SplitStep
    \/ SplitFinish
    \/ AnalyzeClause
    \/ AnalyzeBasic
    \/ AnalyzeWithLLM
    \/ GenerateReport

Spec == Init /\ [][Next]_vars

(***************************************************************************)
(* The scorer on its own: findings lists grown one finding at a time,      *)
(* each scored by _calculate_risk_score.                                   *)
(***************************************************************************)
ScorerInit ==
    /\ file = [readable |-> TRUE, paragraphs |-> ExampleParagraphs]
    /\ use_llm = FALSE
    /\ use_llm_for_high_risk = FALSE
    /\ PipelineStart
    /\ risk_rules = _load_risk_rules
    /\ sc_risks = <<>>
    /\ sc_score = _calculate_risk_score(<<>>)
    /\ an_analysis = <<>>
    /\ an_report = NoResult
    /\ SystemStart
    /\ ComparisonStart

ScoreOneMore ==
    /\ Len(sc_risks) < MaxFindings
    /\ \E f \in FindingPool :
          /\ sc_risks' = Append(sc_risks, f)
          /\ sc_score' = _calculate_risk_score(sc_risks')
    /\ UNCHANGED << pipelineVars, risk_rules, analyzerVars, systemVars, comparisonVars >>

ScorerNext == ScoreOneMore

ScorerSpec == ScorerInit /\ [][ScorerNext]_vars

(***************************************************************************)
(* The deterministic analysis and the report on their own: clauses as the  *)
(* segmenter emits them, analysed one by one by _basic_risk_analysis in    *)
(* any order and any number of times, the list reported by                 *)
(* _generate_report (use_llm False).                                       *)
(***************************************************************************)
P_H3 == <<"di4", "san1", "tiao2", " ", "yan4", "shou1", "biao1", "zhun3">>  \* 第三条 验收标准

AnalyzerClauses ==
    LET md == [paragraph_id |-> 0, type |-> "paragraph"]
    IN  { NewClause(md, <<P_H1, Strip(P_B1)>>, P_H1, <<>>),
          NewClause(md, <<P_H2, Strip(P_B2)>>, P_H2, <<>>),
          NewClause(md, <<P_H1>>, P_H1, <<P_S1>>),
          NewClause(md, <<P_H1>>, P_H1, <<>>),
          NewClause(md, <<P_H3>>, P_H3, <<>>),
          NewClause(md, <<Strip(P_N)>>, PreambleTitle, <<>>) }

AnalyzerInit ==
    /\ file = [readable |-> TRUE, paragraphs |-> ExampleParagraphs]
    /\ use_llm = FALSE
    /\ use_llm_for_high_risk = FALSE
    /\ PipelineStart
    /\ risk_rules = _load_risk_rules
    /\ sc_risks = <<>>
    /\ sc_score = _calculate_risk_score(<<>>)
    /\ an_analysis = <<>>
    /\ an_report = NoResult
    /\ SystemStart
    /\ ComparisonStart

\* basic_analysis = self._basic_risk_analysis(clause);
\* analyzed_clauses.append({**clause, **basic_analysis})
BasicAnalysis ==
    /\ Len(an_analysis) < MaxClauses
    /\ \E clause \in AnalyzerClauses :
          an_analysis' = Append(an_analysis, Merge(clause, _basic_risk_analysis(clause)))
    /\ an_report' = NoResult
    /\ UNCHANGED << pipelineVars, risk_rules, scorerVars, systemVars, comparisonVars >>

\* report = self._generate_report(analyzed_clauses), or the error result
ReportAnalysis ==
    /\ an_report = NoResult
    /\ an_report' = TryGenerateReport(an_analysis, use_llm)
    /\ UNCHANGED << pipelineVars, risk_rules, scorerVars, an_analysis, systemVars, comparisonVars >>

AnalyzerNext == BasicAnalysis \/ ReportAnalysis

AnalyzerSpec == AnalyzerInit /\ [][AnalyzerNext]_vars

(***************************************************************************)
(* ContractAISystem (src/demo/ContractAISystem.py): calls of               *)
(* analyze_contract_file, one after the other, on one system.  A path is   *)
(* the sequence of its components.  Each call falls into a later second    *)
(* than the one before it.                                                 *)
(***************************************************************************)
Path_Missing == <<"words", "missing.docx">>
Path_Empty == <<"words", "empty.docx">>
Path_Plain == <<"words", "plain.docx">>
Path_Contract == <<"contract.docx">>

SystemPaths == {Path_Missing, Path_Empty, Path_Plain, Path_Contract}

\* what Document(file_path) finds at the path
FileAt(path) ==
    CASE path = Path_Missing  -> [readable |-> FALSE, paragraphs |-> <<>>]
      [] path = Path_Empty    -> [readable |-> TRUE, paragraphs |-> <<P_E>>]
      [] path = Path_Plain    -> [readable |-> TRUE, paragraphs |-> <<P_N>>]
      [] path = Path_Contract -> [readable |-> TRUE, paragraphs |-> <<P_H1, P_B1>>]

\* os.path.basename(file_path)
Basename(path) == path[Len(path)]

\* datetime.now().isoformat()
IsoFormat(now) == <<"T">> \o DecStr(now)

\* os.path.join("reports", f"contract_analysis_{timestamp}.json") and the .txt beside it
ReportFileName(now, ext) ==
    <<"reports", <<"contract_analysis_">> \o DecStr(now) \o <<ext>> >>

\* how _save_analysis_report ends: both files written; an exception before the
\* JSON file exists (makedirs, open); an exception in _generate_text_report
\* after the JSON file is written
SaveOutcomes == {"saved", "failed_no_file", "failed_json_only"}

\* the directory reports after _save_analysis_report; its except branch keeps
\* every exception in
_save_analysis_report(files, now, outcome) ==
    CASE outcome = "saved" ->
             files \cup {ReportFileName(now, ".json"), ReportFileName(now, ".txt")}
      [] outcome = "failed_json_only" -> files \cup {ReportFileName(now, ".json")}
      [] outcome = "failed_no_file"   -> files

\* ReturnsEarly letting every result through to the stamps, the history and
\* the saving
ReturnsEarly_Never(report) == FALSE

\* if 'error' in report: return report
ReturnsEarly(report) == "error" \in DOMAIN report

\* report['analysis_timestamp'] = ...; report['file_name'] = ...
Stamped(report, now, path) ==
    Merge(report, [analysis_timestamp |-> IsoFormat(now), file_name |-> Basename(path)])

\* AppendHistory keeping the latest report only
AppendHistory_KeepLast(history, report) == <<report>>

\* self.analysis_history.append(report)
AppendHistory(history, report) == Append(history, report)

\* def get_analysis_history(self): return self.analysis_history
get_analysis_history == analysis_history

\* a call of analyze_contract_file is under way
CallPending == calls # <<>> /\ calls[Len(calls)].returned = NoResult

\* self.ai = WorkingContractAI(use_llm=True, ...); self.analysis_history = []
SystemInit ==
    /\ file = [readable |-> FALSE, paragraphs |-> <<>>]
    /\ use_llm = TRUE
    /\ use_llm_for_high_risk = TRUE
    /\ pc = "idle"
    /\ documents = <<>>
    /\ idx = 0
    /\ metadata = NoMetadata
    /\ clauses = <<>>
    /\ current_main_clause = <<>>
    /\ current_main_title = PreambleTitle
    /\ current_sub_clauses = <<>>
    /\ analyzed_clauses = <<>>
    /\ basic_analysis = NoAnalysis
    /\ llm_calls = <<>>
    /\ result = NoResult
    /\ risk_rules = _load_risk_rules
    /\ sc_risks = <<>>
    /\ sc_score = _calculate_risk_score(<<>>)
    /\ an_analysis = <<>>
    /\ an_report = NoResult
    /\ SystemStart
    /\ ComparisonStart

\* analyze_contract_file(file_path, save_report) up to its call of
\* self.ai.analyze_contract(file_path), which starts with fresh locals and
\* use_llm_for_high_risk at its default True
StartAnalysis(file_path, save_report) ==
    /\ calls' = Append(calls, [ file_path   |-> file_path,
                                save_report |-> save_report,
                                returned    |-> NoResult ])
    /\ file' = FileAt(file_path)
    /\ clock' = clock + 1
    /\ pc' = "load"
    /\ documents' = <<>>
    /\ idx' = 0
    /\ metadata' = NoMetadata
    /\ clauses' = <<>>
    /\ current_main_clause' = <<>>
    /\ current_main_title' = PreambleTitle
    /\ current_sub_clauses' = <<>>
    /\ analyzed_clauses' = <<>>
    /\ basic_analysis' = NoAnalysis
    /\ llm_calls' = <<>>
    /\ result' = NoResult
    /\ UNCHANGED << use_llm, use_llm_for_high_risk, risk_rules, scorerVars,
                    analyzerVars, analysis_history, report_files >>

\* a call of analyze_contract_file from outside
AnalyzeContractFile ==
    /\ pc = "idle"
    /\ cmp_pc = "idle"
    /\ Len(calls) < MaxCalls
    /\ \E file_path \in SystemPaths, save_report \in BOOLEAN :
          StartAnalysis(file_path, save_report)
    /\ UNCHANGED comparisonVars

\* the rest of analyze_contract_file once analyze_contract has returned: the
\* early return of an error result, or the stamps, the append to the history,
\* the saving when asked for, and the return of the report
FinishAnalysis ==
    /\ pc = "done"
    /\ CallPending
    /\ LET call == calls[Len(calls)]
       IN  \/ /\ ReturnsEarly(result)
              /\ calls' = [calls EXCEPT ![Len(calls)].returned = result]
              /\ UNCHANGED << analysis_history, report_files >>
           \/ /\ ~ReturnsEarly(result)
              /\ \E report \in {Stamped(result, clock, call.file_path)} :
                    /\ analysis_history' = AppendHistory(analysis_history, report)
                    /\ IF call.save_report
                       THEN \E outcome \in SaveOutcomes :
                               report_files' =
                                   _save_analysis_report(report_files, clock, outcome)
                       ELSE UNCHANGED report_files
                    /\ calls' = [calls EXCEPT ![Len(calls)].returned = report]
    /\ pc' = "idle"
    /\ UNCHANGED << file, use_llm, use_llm_for_high_risk, documents, idx, metadata,
                    clauses, current_main_clause, current_main_title,
                    current_sub_clauses, analyzed_clauses, basic_analysis, llm_calls,
                    result, risk_rules, scorerVars, analyzerVars, clock,
                    comparisonVars >>

SystemNext ==
    \/ AnalyzeContractFile
    \/ LoadContract
    \/ SplitStep
    \/ SplitFinish
    \/ AnalyzeClause
    \/ AnalyzeBasic
    \/ AnalyzeWithLLM
    \/ GenerateReport
    \/ FinishAnalysis

SystemSpec == SystemInit /\ [][SystemNext]_vars

(***************************************************************************)
(* ContractAISystem.generate_comparison_report on a fresh system.          *)
(***************************************************************************)
\* the methods the class ContractAISystem defines
ContractAISystemMethods ==
    { "__init__", "analyze_contract_file", "_save_analysis_report",
      "_generate_text_report", "get_analysis_history", "generate_comparison_report" }

\* the row generate_comparison_report keeps of a report
ComparisonRow(report) ==
    [ file_name         |-> report.file_name,
      risk_score        |-> report.overall_risk_score,
      risk_level        |-> report.risk_level,
      high_risk_clauses |-> report.high_risk_clauses,
      total_risks       |-> report.total_risks_found ]

\* generate_comparison_report(file_paths): comparison_data = []
GenerateComparisonReport ==
    /\ cmp_pc = "idle"
    /\ pc = "idle"
    /\ calls = <<>>
    /\ file_paths' \in SeqsUpTo(SystemPaths, MaxPaths)
    /\ comparison_data' = <<>>
    /\ cmp_idx' = 0
    /\ cmp_pc' = "loop"
    /\ UNCHANGED << pipelineVars, risk_rules, scorerVars, analyzerVars, systemVars >>

\* for file_path in file_paths:
\*     report = self.analyze_contract_file(file_path, save_report=False)
CompareAnalyze ==
    /\ cmp_pc = "loop"
    /\ cmp_idx < Len(file_paths)
    /\ StartAnalysis(file_paths[cmp_idx + 1], FALSE)
    /\ cmp_pc' = "call"
    /\ UNCHANGED << file_paths, comparison_data, cmp_idx >>

\* if 'error' not in report: comparison_data.append({...})
CompareCollect ==
    /\ cmp_pc = "call"
    /\ pc = "idle"
    /\ LET report == calls[Len(calls)].returned
       IN  comparison_data' =
               IF "error" \notin DOMAIN report
               THEN Append(comparison_data, ComparisonRow(report))
               ELSE comparison_data
    /\ cmp_idx' = cmp_idx + 1
    /\ cmp_pc' = "loop"
    /\ UNCHANGED << pipelineVars, risk_rules, scorerVars, analyzerVars, systemVars,
                    file_paths >>

\* self._generate_comparison_text(comparison_data): the attribute lookup on
\* self raises AttributeError when the class has no such method
CompareFinish ==
    /\ cmp_pc = "loop"
    /\ cmp_idx = Len(file_paths)
    /\ cmp_pc' = IF "_generate_comparison_text" \in ContractAISystemMethods
                 THEN "returned"
                 ELSE "raised_AttributeError"
    /\ UNCHANGED << pipelineVars, risk_rules, scorerVars, analyzerVars, systemVars,
                    file_paths, comparison_data, cmp_idx >>

ComparisonNext ==
    \/ GenerateComparisonReport
    \/ CompareAnalyze
    \/ LoadContract
    \/ SplitStep
    \/ SplitFinish
    \/ AnalyzeClause
    \/ AnalyzeBasic
    \/ AnalyzeWithLLM
    \/ GenerateReport
    \/ FinishAnalysis
    \/ CompareCollect
    \/ CompareFinish

ComparisonSpec == SystemInit /\ [][ComparisonNext]_vars

(***************************************************************************)
(* Properties.                                                             *)
(***************************************************************************)
IsError(r) == "error" \in DOMAIN r

IsReport(r) == "clauses_analysis" \in DOMAIN r

\* analyze_contract has returned a report
Reported == pc = "done" /\ IsReport(result)

\* split_into_clauses has returned
SplitDone == pc \in {"analyze", "enrich", "done"} /\ file.readable

Texts == [k \in 1..Len(documents) |-> documents[k].page_content]

Bodies == [k \in 1..Len(clauses) |-> clauses[k].page_content]

Titles == [k \in 1..Len(clauses) |-> clauses[k].metadata.clause_title]

ExampleRun == file.readable /\ file.paragraphs = ExampleParagraphs

NumLevel(risks, level) == Cardinality({k \in DOMAIN risks : risks[k].level = level})

\* C1: in every report, high_risk_clauses + medium_risk_clauses + the number of
\* clauses with risk_score >= 80 is the number of clauses: the three buckets
\* partition the clauses.
C1_BucketsPartition ==
    Reported =>
        LET analysis == result.clauses_analysis
            low == Cardinality({k \in DOMAIN analysis : analysis[k].risk_score >= 80})
        IN  result.high_risk_clauses + result.medium_risk_clauses + low = Len(analysis)

\* C2: whatever the enrichment returns, the risk_score and the findings recorded
\* for a clause are those of the deterministic detector and scorer.
C2_DeterministicScoreAuthoritative ==
    \A k \in DOMAIN analyzed_clauses :
        \A basic \in {_basic_risk_analysis(clauses[k])} :
            /\ analyzed_clauses[k].risk_score = basic.risk_score
            /\ analyzed_clauses[k].risks = basic.risks

AllCallsRaised == \A c \in DOMAIN llm_calls : llm_calls[c].outcome = "raise"

\* the policy, written out: always, high_risk_only (score < 70), never
PolicyInvokes(score) == use_llm /\ (~use_llm_for_high_risk \/ score < 70)

C5_ExampleReport ==
    (ExampleRun /\ pc = "done") =>
        /\ Titles = <<P_H1, P_H2>>
        /\ IsReport(result)
        /\ result.total_clauses = 2
        /\ \A k \in DOMAIN result.clauses_analysis :
              result.clauses_analysis[k].risk_score < 60
        /\ result.risk_level = "high"
        /\ result.high_risk_clauses = 2

\* C6: for a findings list with h high and m medium entries the score is 85
\* when the list is empty and max(30, 85 - 20*h - 10*m) otherwise, and it lies
\* in [30, 85], so in [30, 100].
C6_ScoreFormula ==
    LET h == NumLevel(sc_risks, "high")
        m == NumLevel(sc_risks, "medium")
    IN  /\ sc_score = (IF h + m = 0 THEN 85 ELSE Max(30, 85 - 20 * h - 10 * m))
        /\ 30 <= sc_score /\ sc_score <= 85

\* a list whose penalties exceed the floor: the score is cut off at 30
C6_Witness ==
    /\ 85 - 20 * NumLevel(sc_risks, "high") - 10 * NumLevel(sc_risks, "medium") < 30
    /\ NumLevel(sc_risks, "high") >= 1
    /\ NumLevel(sc_risks, "medium") >= 1
    /\ sc_score = 30

\* C7: adding a finding, high or medium, to a findings list never increases
\* the score.
C7_ScoreMonotone ==
    [][(sc_risks' # sc_risks /\ SubSeq(sc_risks', 1, Len(sc_risks)) = sc_risks)
          => sc_score' <= sc_score]_vars

\* findings were added both while the score still fell and at the floor
C7_Witness ==
    /\ Len(sc_risks) >= 4
    /\ sc_score = 30
    /\ sc_risks[Len(sc_risks)].level = "high"

\* C8: for a non-empty sequence of non-empty paragraphs split_into_clauses
\* emits at least one clause, and the bodies of the clauses joined with
\* newlines, in emission order, are the paragraph texts joined with newlines in
\* their original order.
C8_SegmentationLossless ==
    (SplitDone /\ documents # <<>>) =>
        /\ Len(clauses) >= 1
        /\ Join(Bodies) = Join(Texts)

\* three paragraphs split into two clauses, one of them with a sub-clause
C8_Witness ==
    /\ SplitDone
    /\ Len(documents) = 3
    /\ Len(clauses) = 2
    /\ \E k \in DOMAIN clauses : clauses[k].metadata.sub_clause_count = 1

\* the headings among the paragraphs of the pool, stripped: 第一条 付款, 第二条 验收
IsHeading(text) == text \in {P_H1, P_H2}

HeadingPositions == {p \in DOMAIN documents : IsHeading(Texts[p])}

\* the position of the first heading after p, or one past the last paragraph
NextHeading(p) ==
    LET later == {q \in HeadingPositions : q > p}
    IN  IF later = {} THEN Len(documents) + 1
        ELSE CHOOSE q \in later : \A r \in later : q <= r

\* 1 when paragraphs precede the first heading
PreambleClauses == IF NextHeading(0) > 1 THEN 1 ELSE 0

\* the index of the clause the heading at position p starts
ClauseOf(p) == Cardinality({q \in HeadingPositions : q <= p}) + PreambleClauses

C10_FlushStep ==
    (pc = "split" /\ idx' = idx + 1 /\ IsHeading(Texts[idx + 1])) =>
        IF current_main_clause # <<>> \/ current_sub_clauses # <<>>
        THEN /\ Len(clauses') = Len(clauses) + 1
             /\ SubSeq(clauses', 1, Len(clauses)) = clauses
             /\ clauses'[Len(clauses')].metadata.clause_title = current_main_title
        ELSE clauses' = clauses

\* C10, the outcome: two consecutive headings yield a clause each, the first
\* with the heading alone as its body; a heading that is the very first
\* paragraph leaves no preamble clause; the paragraphs before the first heading
\* make one clause titled 合同前言.
C10_FlushOutcome ==
    (SplitDone /\ documents # <<>>) =>
        /\ clauses # <<>>
        /\ \A p \in HeadingPositions :
              (p + 1) \in HeadingPositions =>
                  /\ ClauseOf(p + 1) \in DOMAIN clauses
                  /\ Bodies[ClauseOf(p)] = Texts[p]
                  /\ Titles[ClauseOf(p + 1)] = Texts[p + 1]
        /\ 1 \in HeadingPositions =>
              /\ Titles[1] = Texts[1]
              /\ \A k \in DOMAIN clauses : Titles[k] # PreambleTitle
        /\ 1 \notin HeadingPositions =>
              /\ Titles[1] = PreambleTitle
              /\ Bodies[1] = Join(SubSeq(Texts, 1, NextHeading(0) - 1))
              /\ \A k \in DOMAIN clauses : k > 1 => Titles[k] # PreambleTitle

\* C10: in split_into_clauses a heading flushes the accumulated clause exactly
\* when an accumulator is non-empty, with the outcomes above.
C10_FlushIffAccumulated == [][C10_FlushStep]_vars /\ []C10_FlushOutcome

\* a heading first, the next heading right after it, and a preamble-free result
C10_Witness ==
    /\ SplitDone
    /\ Len(documents) >= 2
    /\ 1 \in HeadingPositions
    /\ 2 \in HeadingPositions
    /\ Bodies[1] = Texts[1]

\* the sub-clause heading among the paragraphs of the pool: 1.1 交付
IsSubHeading(text) == text = P_S1

\* the position of the first paragraph of clause k
ClauseStart(k) ==
    IF k = 1 /\ PreambleClauses = 1 THEN 1
    ELSE CHOOSE p \in HeadingPositions : ClauseOf(p) = k

\* the positions of the sub-clause headings among the paragraphs s..e
SubHeadingsIn(s, e) == {q \in s..e : IsSubHeading(Texts[q])}

\* C11, the step: a paragraph that is neither a heading nor a sub-clause
\* heading leaves the number of sub-clause entries as it is; it is appended
\* to the last sub-clause entry if there is one and to the main lines otherwise.
C11_ProseStep ==
    (/\ pc = "split"
     /\ idx' = idx + 1
     /\ ~IsHeading(Texts[idx + 1])
     /\ ~IsSubHeading(Texts[idx + 1])) =>
        /\ Len(current_sub_clauses') = Len(current_sub_clauses)
        /\ IF current_sub_clauses # <<>>
           THEN /\ current_main_clause' = current_main_clause
                /\ current_sub_clauses'[Len(current_sub_clauses)] =
                       current_sub_clauses[Len(current_sub_clauses)]
                           \o <<NL>> \o Texts[idx + 1]
           ELSE current_main_clause' = Append(current_main_clause, Texts[idx + 1])

\* C11, the outcome: sub_clause_count of a clause is the number of sub-clause
\* heading paragraphs from the clause's first paragraph up to the next main
\* heading, and in the body the main lines (the paragraphs before the first
\* sub-clause heading) precede the sub-clause lines (that heading and all
\* that follows it).
C11_CountOutcome ==
    (SplitDone /\ documents # <<>>) =>
        \A k \in DOMAIN clauses :
            LET s == ClauseStart(k)
                e == NextHeading(s) - 1
                subs == SubHeadingsIn(s, e)
                nmain == IF subs = {} THEN e - s + 1
                         ELSE (CHOOSE q \in subs : \A r \in subs : q <= r) - s
                lines == Split(Bodies[k])
            IN  /\ clauses[k].metadata.sub_clause_count = Cardinality(subs)
                /\ Len(lines) = e - s + 1
                /\ \A j \in 1..Len(lines) :
                      /\ lines[j] = Texts[s + j - 1]
                      /\ j <= nmain => ~IsSubHeading(lines[j])
                /\ subs # {} => IsSubHeading(lines[nmain + 1])

\* C11: sub_clause_count counts the sub-clause headings of the clause, plain
\* paragraphs never change it, and the main lines precede the sub-clause lines
\* in the body.
C11_SubClauseCount == [][C11_ProseStep]_vars /\ []C11_CountOutcome

\* a heading, a sub-clause heading and a plain paragraph after it: one clause
\* with one sub-clause, the plain paragraph inside the sub-clause entry
C11_Witness ==
    /\ SplitDone
    /\ Len(documents) = 3
    /\ IsHeading(Texts[1])
    /\ IsSubHeading(Texts[2])
    /\ ~IsHeading(Texts[3]) /\ ~IsSubHeading(Texts[3])
    /\ Len(clauses) = 1
    /\ clauses[1].metadata.sub_clause_count = 1

\* the clauses the advisor was called for, in call order
CalledClauses == [c \in DOMAIN llm_calls |-> llm_calls[c].clause]

\* C12, the step: the advisor is called only in the part of an iteration that
\* follows the clause's detector and scorer; there it is called once, for the
\* clause at hand, exactly when the policy allows it for the risk_score the
\* scorer gave (always: every clause; high_risk_only: risk_score < 70; never:
\* no clause).
C12_Step ==
    /\ llm_calls' # llm_calls => (pc = "enrich" /\ analyzed_clauses' # analyzed_clauses)
    /\ (pc = "enrich" /\ analyzed_clauses' # analyzed_clauses) =>
           \E k \in {Len(analyzed_clauses) + 1} :
               /\ k \in DOMAIN clauses
               /\ Len(analyzed_clauses') = k
               /\ IF PolicyInvokes(basic_analysis.risk_score)
                  THEN /\ Len(llm_calls') = Len(llm_calls) + 1
                       /\ SubSeq(llm_calls', 1, Len(llm_calls)) = llm_calls
                       /\ llm_calls'[Len(llm_calls')].clause = k
                  ELSE llm_calls' = llm_calls

\* C12, the log: where the advisor may be called, basic_analysis is the
\* deterministic analysis of the clause at hand; at every moment the advisor
\* has been called for analysed clauses or the clause at hand only, at most
\* once per clause and in clause order; under always it has been called for
\* every analysed clause and under never for none.
C12_Log ==
    /\ pc = "enrich" =>
          /\ Len(analyzed_clauses) + 1 \in DOMAIN clauses
          /\ basic_analysis = _basic_risk_analysis(clauses[Len(analyzed_clauses) + 1])
    /\ \A c \in DOMAIN llm_calls : CalledClauses[c] \in DOMAIN analyzed_clauses
    /\ \A c, d \in DOMAIN llm_calls : c < d => CalledClauses[c] < CalledClauses[d]
    /\ (use_llm /\ ~use_llm_for_high_risk) =>
          CalledClauses = [k \in DOMAIN analyzed_clauses |-> k]
    /\ ~use_llm => llm_calls = <<>>

\* C12: the advisor is called exactly when the policy allows it, at most once
\* per clause and only after the clause's detector and scorer have run.
C12_EnrichmentPolicy == [][C12_Step]_vars /\ []C12_Log

\* high_risk_only, two clauses: the first scores 65 and went to the advisor,
\* the second scores 75 and did not
C12_Witness ==
    /\ Reported
    /\ use_llm /\ use_llm_for_high_risk
    /\ Len(clauses) = 2
    /\ _basic_risk_analysis(clauses[1]).risk_score = 65
    /\ _basic_risk_analysis(clauses[2]).risk_score = 75
    /\ CalledClauses = <<1>>

\* the sum of a sequence of numbers
RECURSIVE SeqSum(_)
SeqSum(ns) == IF ns = <<>> THEN 0 ELSE ns[1] + SeqSum(Tail(ns))

\* the risk scores and the findings counts of the clauses analysed one by one
AnScores == [k \in DOMAIN an_analysis |-> an_analysis[k].risk_score]

AnFindings == [k \in DOMAIN an_analysis |-> Len(an_analysis[k].risks)]

\* the number of those clauses with risk_score < 60
AnHighRisk == Cardinality({k \in DOMAIN an_analysis : AnScores[k] < 60})

\* C13: the report of a non-empty list of analysed clauses has
\* overall_risk_score = floor of the mean of the clauses' risk scores,
\* risk_level low for a score >= 80, medium for 60..79 and high below 60,
\* total_risks_found = the sum of the clauses' findings counts, and
\* high_risk_clauses = the number of clauses with risk_score < 60.
C13_ReportFields ==
    (an_analysis # <<>> /\ an_report # NoResult) =>
        /\ IsReport(an_report)
        /\ an_report.overall_risk_score * Len(an_analysis) <= SeqSum(AnScores)
        /\ SeqSum(AnScores) < (an_report.overall_risk_score + 1) * Len(an_analysis)
        /\ an_report.risk_level =
               (CASE an_report.overall_risk_score >= 80 -> "low"
                  [] an_report.overall_risk_score >= 60
                     /\ an_report.overall_risk_score < 80 -> "medium"
                  [] an_report.overall_risk_score < 60 -> "high")
        /\ an_report.total_risks_found = SeqSum(AnFindings)
        /\ an_report.high_risk_clauses = AnHighRisk

\* three clauses whose mean is not a whole number: 85, 75 and 30 give 63,
\* medium, with one high-risk clause
C13_Witness ==
    /\ IsReport(an_report)
    /\ Len(an_analysis) = 3
    /\ SeqSum(AnScores) % 3 # 0
    /\ an_report.risk_level = "medium"
    /\ an_report.high_risk_clauses = 1
    /\ an_report.total_risks_found > 0

\* C14: the summary of a report depends only on the number of clauses with
\* risk_score < 60: none gives the risk-under-control message (整体风险可控),
\* one or two the few-high-risk-clauses message (存在少量高风险条款), three or
\* more the legal-department message (建议法务部门重点审查); and that number is
\* the report's high_risk_clauses.
C14_SummaryByHighRiskCount ==
    IsReport(an_report) =>
        /\ an_report.summary =
               (CASE AnHighRisk = 0 -> "summary_risk_under_control"
                  [] AnHighRisk \in {1, 2} -> "summary_few_high_risk_clauses"
                  [] AnHighRisk >= 3 -> "summary_legal_department_review")
        /\ an_report.high_risk_clauses = AnHighRisk

\* three clauses below 60 and the legal-department message
C14_Witness ==
    /\ IsReport(an_report)
    /\ AnHighRisk = 3
    /\ an_report.summary = "summary_legal_department_review"

\* the fields of a report
ReportFields ==
    {"overall_risk_score", "risk_level", "total_clauses", "total_risks_found",
     "high_risk_clauses", "medium_risk_clauses", "clauses_analysis", "summary",
     "llm_enhanced", "timestamp"}

\* the file was read and none of its paragraphs has text
NoParagraphText ==
    file.readable /\ \A i \in DOMAIN file.paragraphs : Strip(file.paragraphs[i]) = <<>>

\* C15: when the file has no paragraph with text, segmentation yields no
\* clause, nothing is analysed, and analyze_contract returns an error result
\* (the report on the empty list fails) that has none of the report's fields.
C15_EmptyDocumentIsError ==
    (pc = "done" /\ NoParagraphText) =>
        /\ clauses = <<>>
        /\ analyzed_clauses = <<>>
        /\ IsError(result)
        /\ (DOMAIN result) \cap ReportFields = {}

\* a readable file of two empty paragraphs, run to the end
C15_Witness ==
    /\ pc = "done"
    /\ NoParagraphText
    /\ Len(file.paragraphs) = 2
    /\ result = ErrorResult("integer division or modulo by zero")

OccursIn(keyword, content) ==
    \E j \in 1..Len(content) :
        j + Len(keyword) - 1 <= Len(content)
        /\ SubSeq(content, j, j + Len(keyword) - 1) = keyword

\* the keywords of the rule table, each as (category, index), found in content
KeywordHits(content) ==
    {rk \in UNION {{<<r, k>> : k \in DOMAIN _load_risk_rules[r].keywords} :
                      r \in DOMAIN _load_risk_rules} :
        OccursIn(_load_risk_rules[rk[1]].keywords[rk[2]], content)}

\* the patterns of the rule table, each as (category, index), matching
\* somewhere in content
PatternHits(content) ==
    {rp \in UNION {{<<r, k>> : k \in DOMAIN _load_risk_rules[r].patterns} :
                      r \in DOMAIN _load_risk_rules} :
        re_search(_load_risk_rules[rp[1]].patterns[rp[2]].pattern, content)}

\* 验收标准, which holds the keywords 验收, 标准 and 验收标准
YanShouBiaoZhun == <<"yan4", "shou1", "biao1", "zhun3">>

\* C18: the findings of a clause are as many as the keywords of the rule table
\* that occur in its text plus the patterns of the table that match somewhere
\* in it: one medium finding per keyword, one high finding per pattern, none
\* merged or dropped when keywords overlap, and each takes its 10 or 20 off
\* the score (down to the floor of 30).
C18_FindingsPerHit ==
    \A i \in DOMAIN an_analysis :
        \A kw \in {Cardinality(KeywordHits(an_analysis[i].page_content))},
           pt \in {Cardinality(PatternHits(an_analysis[i].page_content))} :
            /\ Len(an_analysis[i].risks) = kw + pt
            /\ NumLevel(an_analysis[i].risks, "medium") = kw
            /\ NumLevel(an_analysis[i].risks, "high") = pt
            /\ an_analysis[i].risk_score =
                   (IF kw + pt = 0 THEN 85 ELSE Max(30, 85 - 10 * kw - 20 * pt))

\* a clause with 验收标准 in its text: three medium findings, for 验收, 标准
\* and 验收标准, and the score 55
C18_Witness ==
    \E i \in DOMAIN an_analysis :
        /\ OccursIn(YanShouBiaoZhun, an_analysis[i].page_content)
        /\ Cardinality(KeywordHits(an_analysis[i].page_content)) = 3
        /\ Len(an_analysis[i].risks) = 3
        /\ an_analysis[i].risk_score = 55

\* analyze_contract_file returns in this step
Returns == pc = "done" /\ pc' = "idle" /\ calls # <<>> /\ Len(calls') = Len(calls)

\* C19, the run: while a call on a file that cannot be read is under way,
\* nothing is loaded, no clause is segmented or analysed, the advisor is not
\* called, and analyze_contract ends in an error result; every finished call
\* on such a file has returned an error result.
C19_Run ==
    /\ (CallPending /\ ~file.readable) =>
          /\ pc \in {"load", "done"}
          /\ documents = <<>>
          /\ clauses = <<>>
          /\ analyzed_clauses = <<>>
          /\ basic_analysis = NoAnalysis
          /\ llm_calls = <<>>
          /\ pc = "done" => DOMAIN result = {"error"}
    /\ \A i \in DOMAIN calls :
          (~FileAt(calls[i].file_path).readable /\ calls[i].returned # NoResult) =>
              DOMAIN calls[i].returned = {"error"}

\* C19, the return: on a file that cannot be read analyze_contract_file
\* returns analyze_contract's error result, appends nothing to
\* analysis_history and writes no report file.
C19_Return ==
    (Returns /\ ~file.readable) =>
        /\ calls'[Len(calls)].returned = result
        /\ IsError(result)
        /\ analysis_history' = analysis_history
        /\ report_files' = report_files

\* C19: a failure of load_contract is fatal for the whole run, in
\* analyze_contract and in analyze_contract_file.
C19_LoadFailureFatal == [][C19_Return]_vars /\ []C19_Run

\* a call that returned a report and saved it, then a call on a missing file:
\* the error came back, the history and the report files stayed as they were
C19_Witness ==
    /\ Len(calls) = 2
    /\ IsReport(calls[1].returned)
    /\ calls[2].file_path = Path_Missing
    /\ IsError(calls[2].returned)
    /\ analysis_history = <<calls[1].returned>>
    /\ Cardinality(report_files) = 2

\* the calls that have returned something other than an error result
ReportingCalls ==
    SelectSeq(calls, LAMBDA c : c.returned # NoResult /\ ~IsError(c.returned))

\* C20, the history: analysis_history holds the reports returned by the calls
\* that did not return an error, in call order, whatever their save_report
\* and however the saving ended; each has analysis_timestamp and file_name,
\* the file_name being the last component of the call's path; and every call
\* that has ended returned an error result or a report.
C20_History ==
    /\ Len(get_analysis_history) = Len(ReportingCalls)
    /\ \A i \in DOMAIN ReportingCalls :
          /\ i \in DOMAIN get_analysis_history
          /\ get_analysis_history[i] = ReportingCalls[i].returned
          /\ {"analysis_timestamp", "file_name"} \subseteq DOMAIN get_analysis_history[i]
          /\ get_analysis_history[i].file_name =
                 ReportingCalls[i].file_path[Len(ReportingCalls[i].file_path)]
    /\ \A i \in DOMAIN calls :
          \/ calls[i].returned = NoResult
          \/ IsError(calls[i].returned)
          \/ IsReport(calls[i].returned)

\* C20, the step: analysis_history never shrinks or changes what it holds;
\* a call that ends with a report returns analyze_contract's report with the
\* two stamps added and appends it, with save_report False as with True,
\* with the report files written, written in part or not at all.
C20_Step ==
    /\ Len(analysis_history') >= Len(analysis_history)
    /\ SubSeq(analysis_history', 1, Len(analysis_history)) = analysis_history
    /\ (Returns /\ ~IsError(result)) =>
          /\ Len(analysis_history') = Len(analysis_history) + 1
          /\ analysis_history'[Len(analysis_history')] = calls'[Len(calls)].returned
          /\ \A fld \in DOMAIN result :
                /\ fld \in DOMAIN calls'[Len(calls)].returned
                /\ calls'[Len(calls)].returned[fld] = result[fld]
          /\ DOMAIN calls'[Len(calls)].returned =
                 (DOMAIN result) \cup {"analysis_timestamp", "file_name"}

\* C20: analysis_history is the list of the reports of the calls that did not
\* return an error; it only grows, and neither save_report nor a failure of
\* the saving changes that.
C20_HistoryOfReports == [][C20_Step]_vars /\ []C20_History

\* a call with save_report False and then a call whose saving failed after the
\* JSON file was written: both reports are in the history
C20_Witness ==
    /\ Len(calls) = 2
    /\ ~calls[1].save_report
    /\ calls[2].save_report
    /\ report_files = {ReportFileName(2, ".json")}
    /\ Len(analysis_history) = 2
    /\ analysis_history[2] = calls[2].returned

\* the positions, among the loaded paragraphs, of the paragraphs of clause k
ClauseParagraphs(k) == ClauseStart(k)..(NextHeading(ClauseStart(k)) - 1)

\* C21: the paragraph_id in the metadata of every clause split_into_clauses
\* emits is the paragraph_id of one of the paragraphs that make up the body of
\* that clause, and of no paragraph of a later clause.
C21_MetadataOfOwnParagraph ==
    (SplitDone /\ documents # <<>>) =>
        \A k \in DOMAIN clauses :
            \E p \in ClauseParagraphs(k) :
                /\ p \in DOMAIN documents
                /\ documents[p].metadata.paragraph_id = clauses[k].metadata.paragraph_id


\* the comparison rows of the calls in returned_calls whose analysis returned a
\* report, in the order of the calls
RECURSIVE RowsOf(_)
RowsOf(returned_calls) ==
    IF returned_calls = <<>> THEN <<>>
    ELSE LET report == Head(returned_calls).returned
             row == [ file_name         |-> report.file_name,
                      risk_score        |-> report.overall_risk_score,
                      risk_level        |-> report.risk_level,
                      high_risk_clauses |-> report.high_risk_clauses,
                      total_risks       |-> report.total_risks_found ]
         IN  (IF IsReport(report) THEN << row >> ELSE <<>>)
                 \o RowsOf(Tail(returned_calls))

\* the files are analysed one at a time in list order with save_report=False,
\* and the rows collected are those of the files analysed without error
C22_RowsInListOrder ==
    cmp_pc # "idle" =>
        /\ cmp_idx <= Len(file_paths)
        /\ Len(calls) = cmp_idx + (IF cmp_pc = "call" THEN 1 ELSE 0)
        /\ \A c \in DOMAIN calls :
              /\ calls[c].file_path = file_paths[c]
              /\ calls[c].save_report = FALSE
        /\ comparison_data = RowsOf(SubSeq(calls, 1, cmp_idx))
        /\ report_files = {}

\* C22: for every list of file paths generate_comparison_report analyses the
\* files in list order with save_report=False, keeps one row per file analysed
\* without error, and then completes normally: it never ends in an exception.
C22_ComparisonCompletes ==
    /\ C22_RowsInListOrder
    /\ cmp_pc # "raised_AttributeError"

\* the loop of generate_comparison_report is over with a row collected and a
\* file left out for its failed analysis
C22_LoopDone ==
    /\ cmp_pc = "loop"
    /\ cmp_idx = Len(file_paths)
    /\ Len(file_paths) = 2
    /\ Len(comparison_data) = 1
====
